---- MODULE Spec2Model ----
(***************************************************************************)
(* Model of data-cdc-gov-metadata.py: the download index builder, the      *)
(* homepage stream reader, the catalog and archive resolvers, the main and *)
(* leftover reconciliation passes and the report loop.                     *)
(*                                                                         *)
(* Text is modelled as a sequence of one-character strings, so that the    *)
(* regular expressions, rstrip, split, urlparse and the string ordering of *)
(* sorted() are computed character by character as Python computes them.   *)
(***************************************************************************)
EXTENDS Integers, Sequences, FiniteSets, TLC

VARIABLES
    download_lines,             \* content of cdc_data_downloads.csv, one element per line
    homepage_lines,             \* content of cdc_data_sitemap_data.csv, one element per line
    pc,                         \* position of the script
    hpos,                       \* number of homepage lines consumed by readline()
    parsed_download_file_dict,  \* dict: sequence of [key, value] in insertion order
    download_files_processed,   \* dict socrata_id -> True, kept as its key set
    results_dict,               \* dict name -> list of values dicts, insertion order
    lpos,                       \* keys of parsed_download_file_dict already visited by the leftover loop
    leftover_downloads_list,    \* ret of process_leftover_download_files
    rows,                       \* data rows written by csv_writer.writerow
    ia_requests                 \* homepage urls handed to get_internet_archive_snapshots

vars == <<download_lines, homepage_lines, pc, hpos, parsed_download_file_dict,
          download_files_processed, results_dict, lpos, leftover_downloads_list,
          rows, ia_requests>>

-----------------------------------------------------------------------------
(* Bounds of the model *)

\* longest download list
MaxDl == 3
\* longest homepage list
MaxHp == 2

-----------------------------------------------------------------------------
(* Characters and text *)

Digits == {"0","1","2","3","4","5","6","7","8","9"}

Letters ==
    {"a","b","c","d","e","f","g","h","i","j","k","l","m",
     "n","o","p","q","r","s","t","u","v","w","x","y","z",
     "A","B","C","D","E","F","G","H","I","J","K","L","M",
     "N","O","P","Q","R","S","T","U","V","W","X","Y","Z"}

\* the decimal digits in order
Ascii0to9 == <<"0","1","2","3","4","5","6","7","8","9">>

\* the class [a-zA-Z0-9]
Alnum == Letters \cup Digits

\* what str.rstrip() removes
Whitespace == {" ", "\t", "\n", "\r"}

\* the printable ASCII characters in code point order, 32 to 95
AsciiLow ==
    <<" ","!","\"","#","$","%","&","'","(",")","*","+",",","-",".","/",
      "0","1","2","3","4","5","6","7","8","9",":",";","<","=",">","?",
      "@","A","B","C","D","E","F","G","H","I","J","K","L","M","N","O",
      "P","Q","R","S","T","U","V","W","X","Y","Z","[","\\","]","^","_">>

\* the printable ASCII characters in code point order, 97 to 126
AsciiHigh ==
    <<"a","b","c","d","e","f","g","h","i","j","k","l","m","n","o",
      "p","q","r","s","t","u","v","w","x","y","z","{","|","}","~">>

\* code point of a character, the key of the string comparison of sorted()
Ord(c) ==
    IF c = "\t" THEN 9
    ELSE IF c = "\n" THEN 10
    ELSE IF c = "\r" THEN 13
    ELSE IF \E i \in 1..Len(AsciiLow) : AsciiLow[i] = c
         THEN 31 + (CHOOSE i \in 1..Len(AsciiLow) : AsciiLow[i] = c)
    ELSE 96 + (CHOOSE i \in 1..Len(AsciiHigh) : AsciiHigh[i] = c)

\* s < t for Python strings: code point by code point, a proper prefix first
RECURSIVE StrLess(_, _)
StrLess(s, t) ==
    IF t = <<>> THEN FALSE
    ELSE IF s = <<>> THEN TRUE
    ELSE IF Ord(Head(s)) # Ord(Head(t)) THEN Ord(Head(s)) < Ord(Head(t))
    ELSE StrLess(Tail(s), Tail(t))

StrLeq(s, t) == s = t \/ StrLess(s, t)

\* str.rstrip()
RECURSIVE rstrip(_)
rstrip(s) ==
    IF s = <<>> THEN s
    ELSE IF s[Len(s)] \in Whitespace THEN rstrip(SubSeq(s, 1, Len(s) - 1))
    ELSE s

\* number of characters of class cls at s[i], s[i+1], ... (a greedy cls* at i)
RECURSIVE RunLen(_, _, _)
RunLen(s, i, cls) ==
    IF i > Len(s) THEN 0
    ELSE IF s[i] \in cls THEN 1 + RunLen(s, i + 1, cls)
    ELSE 0

\* s[i] = c, false past the end
CharAt(s, i, c) == i >= 1 /\ i <= Len(s) /\ s[i] = c

\* index of the first occurrence of a character of cs in s at or after i, 0 if none
RECURSIVE FindFrom(_, _, _)
FindFrom(s, i, cs) ==
    IF i > Len(s) THEN 0
    ELSE IF s[i] \in cs THEN i
    ELSE FindFrom(s, i + 1, cs)

\* str.split(sep) for a one-character separator
RECURSIVE Split(_, _)
Split(s, sep) ==
    LET i == FindFrom(s, 1, {sep})
    IN  IF i = 0 THEN <<s>>
        ELSE <<SubSeq(s, 1, i - 1)>> \o Split(SubSeq(s, i + 1, Len(s)), sep)

-----------------------------------------------------------------------------
(* Python dicts: a sequence of [key, value] entries in insertion order *)

DictKeys(d) == {d[i].key : i \in 1..Len(d)}

DictGet(d, k) == d[CHOOSE i \in 1..Len(d) : d[i].key = k].value

\* d[k].append(v) when k is a key of d, d[k] = [v] otherwise
DictAppend(d, k, v) ==
    IF k \in DictKeys(d)
    THEN [i \in 1..Len(d) |->
            IF d[i].key = k THEN [key |-> k, value |-> Append(d[i].value, v)] ELSE d[i]]
    ELSE Append(d, [key |-> k, value |-> <<v>>])

-----------------------------------------------------------------------------
(* build_download_file_dict: the filename pattern and the timestamp *)

\* re.search of ^(?P<socrata_id>[a-zA-Z0-9]+-[a-zA-Z0-9]+)_(?P<timestamp>\d+\.\d+)_
\* The classes exclude the delimiters, so each greedy run is the maximal one.
MatchDownload(line) ==
    LET n1 == RunLen(line, 1, Alnum)
        n2 == RunLen(line, n1 + 2, Alnum)
        t0 == n1 + n2 + 3
        d1 == RunLen(line, t0, Digits)
        d2 == RunLen(line, t0 + d1 + 1, Digits)
        ok == /\ n1 >= 1
              /\ CharAt(line, n1 + 1, "-")
              /\ n2 >= 1
              /\ CharAt(line, n1 + n2 + 2, "_")
              /\ d1 >= 1
              /\ CharAt(line, t0 + d1, ".")
              /\ d2 >= 1
              /\ CharAt(line, t0 + d1 + d2 + 1, "_")
    IN  IF ok
        THEN [matched |-> TRUE,
              socrata_id |-> SubSeq(line, 1, n1 + n2 + 1),
              whole |-> SubSeq(line, t0, t0 + d1 - 1),
              fraction |-> SubSeq(line, t0 + d1 + 1, t0 + d1 + d2)]
        ELSE [matched |-> FALSE, socrata_id |-> <<>>, whole |-> <<>>, fraction |-> <<>>]

\* a decimal numeral without its leading zeros
RECURSIVE StripZeros(_)
StripZeros(ds) ==
    IF Len(ds) > 1 /\ ds[1] = "0" THEN StripZeros(Tail(ds)) ELSE ds

\* the numeral of n + 1
RECURSIVE IncDigits(_)
IncDigits(ds) ==
    IF ds = <<>> THEN <<"1">>
    ELSE LET last == ds[Len(ds)]
             init == SubSeq(ds, 1, Len(ds) - 1)
         IN  IF last = "9" THEN Append(IncDigits(init), "0")
             ELSE Append(init, Ascii0to9[(CHOOSE i \in 1..10 : Ascii0to9[i] = last) + 1])

\* datetime rounds the fraction to microseconds: above .9999995 it carries into the
\* seconds (at exactly .9999995 the binary value of the float decides; no line of the
\* model has such a fraction)
FractionCarries(fr) ==
    /\ Len(fr) >= 7
    /\ \A i \in 1..6 : fr[i] = "9"
    /\ \/ fr[7] \in {"6","7","8","9"}
       \/ fr[7] = "5" /\ \E i \in 8..Len(fr) : fr[i] # "0"

\* the whole seconds utcfromtimestamp(float(ts)) lands on
WholeSeconds(whole, fr) ==
    IF FractionCarries(fr) THEN IncDigits(StripZeros(whole)) ELSE StripZeros(whole)

\* a <= b for numerals without leading zeros
NumLeq(a, b) ==
    \/ Len(a) < Len(b)
    \/ Len(a) = Len(b) /\ StrLeq(a, b)

\* 9999-12-31 23:59:59, the last second a datetime holds
LastSecond == <<"2","5","3","4","0","2","3","0","0","7","9","9">>

\* utcfromtimestamp raises ValueError past year 9999
TimestampRaises(whole, fr) == ~NumLeq(WholeSeconds(whole, fr), LastSecond)

\* strftime("%Y-%m-%d %H:%M:%S UTC"): a rendering of the whole seconds (the calendar
\* arithmetic is one-to-one on the seconds and is left as the numeral), fraction dropped
DownloadTs(whole, fr) == WholeSeconds(whole, fr) \o <<" ","U","T","C">>

-----------------------------------------------------------------------------
(* is_socrata_id and get_next_homepage_url_line *)

\* re.match of ^[a-zA-Z0-9]{4}-[a-zA-Z0-9]{4}$ ($ also matches before a final newline)
is_socrata_id(s) ==
    /\ Len(s) \in {9, 10}
    /\ \A i \in {1, 2, 3, 4, 6, 7, 8, 9} : s[i] \in Alnum
    /\ s[5] = "-"
    /\ Len(s) = 10 => s[10] = "\n"

\* s from index i to its end
From(s, i) == SubSeq(s, i, Len(s))

\* s up to the first character of cs, all of s if none
Before(s, cs) ==
    LET i == FindFrom(s, 1, cs) IN IF i = 0 THEN s ELSE SubSeq(s, 1, i - 1)

\* index of the last occurrence of c in s, 0 if none
RECURSIVE RFind(_, _)
RFind(s, c) ==
    IF s = <<>> THEN 0
    ELSE IF s[Len(s)] = c THEN Len(s)
    ELSE RFind(SubSeq(s, 1, Len(s) - 1), c)

\* urlparse(url).path: the scheme, the //netloc, the #fragment, the ?query and the
\* ;params of the last segment are cut off
UrlPath(url) ==
    LET colon == FindFrom(url, 1, {":"})
        hasScheme == /\ colon > 1
                     /\ url[1] \in Letters
                     /\ \A i \in 1..(colon - 1) : url[i] \in Alnum \cup {"+", "-", "."}
        u1 == IF hasScheme THEN From(url, colon + 1) ELSE url
        hasNetloc == Len(u1) >= 2 /\ u1[1] = "/" /\ u1[2] = "/"
        delim == IF hasNetloc THEN FindFrom(u1, 3, {"/", "?", "#"}) ELSE 0
        u2 == IF ~hasNetloc THEN u1
              ELSE IF delim = 0 THEN <<>>
              ELSE From(u1, delim)
        u3 == Before(Before(u2, {"#"}), {"?"})
        semi == FindFrom(u3, RFind(u3, "/") + 1, {";"})
    IN  IF semi = 0 THEN u3 ELSE SubSeq(u3, 1, semi - 1)

\* Path(path).name: the last component, empty and "." components dropped
PathName(path) ==
    LET parts == SelectSeq(Split(path, "/"), LAMBDA c : c # <<>> /\ c # <<".">>)
    IN  IF parts = <<>> THEN <<>> ELSE parts[Len(parts)]

\* the pieces of line.split(',')
SplitLine(line) == Split(line, ",")

\* (sitemap_url, homepage_url) = line.split(',') raises ValueError unless 2 pieces
SplitRaises(line) == Len(SplitLine(line)) # 2

\* the dict get_next_homepage_url_line returns for a line that splits in two;
\* socrata_id None is has_id = FALSE
ParseHomepageLine(line) ==
    LET homepage_url == SplitLine(line)[2]
        socrata_id == PathName(UrlPath(homepage_url))
    IN  IF ~is_socrata_id(socrata_id)
        THEN [has_id |-> FALSE, socrata_id |-> <<>>, homepage_url |-> homepage_url]
        ELSE [has_id |-> TRUE, socrata_id |-> socrata_id, homepage_url |-> homepage_url]

-----------------------------------------------------------------------------
(* get_internet_archive_snapshots and get_socrata_data *)

\* requests.get raised, or gave a response with a status code and a body:
\* the body on status 200, "" on any other status and on an exception
get_internet_archive_snapshots(homepage_url, response) ==
    IF ~response.raised /\ response.status_code = 200 THEN response.text ELSE <<>>

\* the text of a key name
KeyText(k) ==
    CASE k = "error" -> <<"e","r","r","o","r">>
      [] k = "name" -> <<"n","a","m","e">>
      [] k = "id" -> <<"i","d">>
      [] k = "homepage" -> <<"h","o","m","e","p","a","g","e">>
      [] k = "description" -> <<"d","e","s","c","r","i","p","t","i","o","n">>

\* one 'key': 'value' item of str(dict)
PyItem(k, v) == <<"'">> \o KeyText(k) \o <<"'", ":", " ", "'">> \o v \o <<"'">>

\* the items of seq joined by ", "
RECURSIVE Join(_)
Join(seq) ==
    IF seq = <<>> THEN <<>>
    ELSE IF Len(seq) = 1 THEN seq[1]
    ELSE seq[1] \o <<",", " ">> \o Join(Tail(seq))

\* str(socrata_meta) of a mapping: {'k': 'v', ...}
PyStr(meta) ==
    LET val(k) == IF k = "name" THEN meta.name
                  ELSE IF k = "homepage" THEN meta.homepage
                  ELSE IF k = "description" THEN meta.description
                  ELSE <<"x">>
        order == <<"error", "name", "id", "homepage", "description">>
        present == SelectSeq(order, LAMBDA k : k \in meta.keys)
    IN  <<"{">> \o Join([i \in 1..Len(present) |-> PyItem(present[i], val(present[i]))]) \o <<"}">>

\* a catalog payload: its key set and the values of the three keys the script reads;
\* None and {} are both the payload without keys (both are falsy)
Payload(keys, name, homepage, description) ==
    [keys |-> keys, name |-> name, homepage |-> homepage, description |-> description]

NoMeta == Payload({}, <<>>, <<>>, <<>>)

UNKN_SOC_NAME == <<"U","N","K","N","_","S","O","C","_","N","A","M","E">>

\* get_socrata_data with soc_name starting empty instead of at the sentinel
get_socrata_data_no_sentinel(socrata_meta, socrata_stdout) ==
    [soc_name |-> IF "name" \in socrata_meta.keys THEN socrata_meta.name ELSE <<>>,
     soc_homepage |-> IF "homepage" \in socrata_meta.keys /\ "error" \notin socrata_meta.keys
                      THEN socrata_meta.homepage ELSE <<>>,
     soc_description |-> IF "description" \in socrata_meta.keys /\ "error" \notin socrata_meta.keys
                         THEN socrata_meta.description ELSE <<>>,
     socrata_meta |-> IF socrata_meta.keys = {} THEN socrata_stdout ELSE PyStr(socrata_meta)]

\* get_socrata_data with the captured stdout dropped when there is no result
get_socrata_data_drops_stdout(socrata_meta, socrata_stdout) ==
    [soc_name |-> IF "name" \in socrata_meta.keys THEN socrata_meta.name ELSE UNKN_SOC_NAME,
     soc_homepage |-> IF "homepage" \in socrata_meta.keys /\ "error" \notin socrata_meta.keys
                      THEN socrata_meta.homepage ELSE <<>>,
     soc_description |-> IF "description" \in socrata_meta.keys /\ "error" \notin socrata_meta.keys
                         THEN socrata_meta.description ELSE <<>>,
     socrata_meta |-> IF socrata_meta.keys = {} THEN <<>> ELSE PyStr(socrata_meta)]

\* ret of get_socrata_data, given what rt.find_socrata_dataset_by_id returned and printed
get_socrata_data(socrata_meta, socrata_stdout) ==
    LET ret == [soc_name |-> UNKN_SOC_NAME, soc_homepage |-> <<>>, soc_description |-> <<>>]
    IN  IF socrata_meta.keys = {}
        THEN [soc_name |-> ret.soc_name,
              soc_homepage |-> ret.soc_homepage,
              soc_description |-> ret.soc_description,
              socrata_meta |-> socrata_stdout]
        ELSE IF "error" \in socrata_meta.keys
        THEN [soc_name |-> IF "name" \in socrata_meta.keys
                           THEN socrata_meta.name ELSE ret.soc_name,
              soc_homepage |-> ret.soc_homepage,
              soc_description |-> ret.soc_description,
              socrata_meta |-> PyStr(socrata_meta)]
        ELSE [soc_name |-> IF "name" \in socrata_meta.keys
                           THEN socrata_meta.name ELSE ret.soc_name,
              soc_homepage |-> IF "homepage" \in socrata_meta.keys
                               THEN socrata_meta.homepage ELSE ret.soc_homepage,
              soc_description |-> IF "description" \in socrata_meta.keys
                                  THEN socrata_meta.description ELSE ret.soc_description,
              socrata_meta |-> PyStr(socrata_meta)]

\* the outcomes of the catalog lookup the model draws from: the payload returned and
\* the text the call printed to stdout
CatNone == [meta |-> NoMeta, stdout |-> <<>>]
CatNoneDiag == [meta |-> NoMeta, stdout |-> <<"4","0","4">>]
CatError == [meta |-> Payload({"error"}, <<>>, <<>>, <<>>), stdout |-> <<>>]
CatErrorName ==
    [meta |-> Payload({"error", "name", "homepage"}, <<"A">>, <<"h","/","e">>, <<>>),
     stdout |-> <<>>]
CatFull ==
    [meta |-> Payload({"name", "id", "homepage", "description"},
                      <<"a">>, <<"h","/","c">>, <<"d">>),
     stdout |-> <<>>]
CatEmptyName == [meta |-> Payload({"name", "id"}, <<>>, <<>>, <<>>), stdout |-> <<>>]
CatNoName == [meta |-> Payload({"id", "homepage"}, <<>>, <<"h","/","c">>, <<>>), stdout |-> <<"w">>]

\* what the two collaborators do during one iteration: the archive response and the
\* catalog outcome
Outcome(raised, status_code, text, catalog) ==
    [response |-> [raised |-> raised, status_code |-> status_code, text |-> text],
     catalog |-> catalog]

\* the outcomes drawn from in a whole run over input files of every kind
RunOutcomes ==
    { Outcome(FALSE, 200, <<"m","1">>, CatNone),
      Outcome(TRUE, 0, <<>>, CatFull),
      Outcome(FALSE, 200, <<"m","2">>, CatEmptyName) }

\* the outcomes drawn from in a run over catalog results of every kind
CatalogOutcomes ==
    { Outcome(FALSE, 200, <<"m","1">>, CatNone),
      Outcome(FALSE, 404, <<"n","o">>, CatNoneDiag),
      Outcome(FALSE, 200, <<"m","3">>, CatError),
      Outcome(FALSE, 200, <<"m","1">>, CatErrorName),
      Outcome(FALSE, 200, <<"m","2">>, CatFull),
      Outcome(TRUE, 0, <<>>, CatEmptyName),
      Outcome(FALSE, 404, <<"n","o">>, CatNoName) }

-----------------------------------------------------------------------------
(* The values dicts and the two passes *)

\* the loop "for download_file_dict in download_file_dict_list" of both passes:
\* every element overwrites the two snapshot fields
RECURSIVE AssignSnapshots(_, _)
AssignSnapshots(values, download_file_dict_list) ==
    IF download_file_dict_list = <<>> THEN values
    ELSE AssignSnapshots(
            [values EXCEPT
                !.dataset_snapshot_filename = Head(download_file_dict_list).download_filename,
                !.dataset_snapshot_dl_ts = Head(download_file_dict_list).download_ts],
            Tail(download_file_dict_list))

\* a values dict; via and lookup record which pass built it and what the catalog
\* returned for it (history, not keys of the dict)
Values(via, catalog, socrata_id, homepage, snapshots, ret) ==
    [via |-> via,
     lookup |-> catalog,
     socrata_id |-> socrata_id,
     homepage |-> homepage,
     internet_archive_snapshots |-> snapshots,
     soc_name |-> ret.soc_name,
     soc_homepage |-> ret.soc_homepage,
     soc_description |-> ret.soc_description,
     socrata_meta |-> ret.socrata_meta,
     dataset_snapshot_filename |-> <<>>,
     dataset_snapshot_dl_ts |-> <<>>]

\* the values dict of one iteration of the main pass
MainValues(parsed, index, response, catalog) ==
    LET ret == get_socrata_data(catalog.meta, catalog.stdout)
        values == Values("main", catalog, parsed.socrata_id, parsed.homepage_url,
                         get_internet_archive_snapshots(parsed.homepage_url, response), ret)
    IN  IF parsed.socrata_id \notin DictKeys(index) THEN values
        ELSE AssignSnapshots(values, DictGet(index, parsed.socrata_id))

\* MarkProcessed with the bookkeeping of line 269 left out
MarkProcessedNever(processed, socrata_id, index) == processed

\* download_files_processed after the main pass looked socrata_id up in the index:
\* download_files_processed[socrata_id] = True when it is a key
MarkProcessed(processed, socrata_id, index) ==
    IF socrata_id \in DictKeys(index) THEN processed \cup {socrata_id} ELSE processed

\* 'soc_homepage' in values.keys(), after values.update(get_socrata_data(...))
HasSocHomepageKey(ret) == "soc_homepage" \in DOMAIN ret

\* whether the leftover pass calls get_internet_archive_snapshots
LeftoverLooksUpArchive(ret) == HasSocHomepageKey(ret)

\* the values dict of one iteration of process_leftover_download_files
LeftoverValues(socrata_id, index, response, catalog) ==
    LET ret == get_socrata_data(catalog.meta, catalog.stdout)
        values == IF LeftoverLooksUpArchive(ret)
                  THEN Values("leftover", catalog, socrata_id, ret.soc_homepage,
                              get_internet_archive_snapshots(ret.soc_homepage, response), ret)
                  ELSE Values("leftover", catalog, socrata_id, <<>>, <<>>, ret)
    IN  AssignSnapshots(values, DictGet(index, socrata_id))

\* results_dict after each element of list was appended under its soc_name
RECURSIVE MergeInto(_, _)
MergeInto(results, list) ==
    IF list = <<>> THEN results
    ELSE MergeInto(DictAppend(results, Head(list).soc_name, Head(list)), Tail(list))

-----------------------------------------------------------------------------
(* The report loop *)

\* seq with entry e added after the entries whose k is not above e.k
RECURSIVE InsertByKey(_, _)
InsertByKey(seq, e) ==
    IF seq = <<>> THEN <<e>>
    ELSE IF StrLess(e.k, seq[Len(seq)].k)
         THEN Append(InsertByKey(SubSeq(seq, 1, Len(seq) - 1), e), seq[Len(seq)])
         ELSE Append(seq, e)

\* sorted(seq, key=lambda e: e.k): ascending and stable
RECURSIVE SortedByKey(_)
SortedByKey(seq) ==
    IF seq = <<>> THEN <<>>
    ELSE InsertByKey(SortedByKey(SubSeq(seq, 1, Len(seq) - 1)), seq[Len(seq)])

\* sorted(results_dict.keys())
SortedNames(results) ==
    LET s == SortedByKey([i \in 1..Len(results) |-> [k |-> results[i].key, v |-> results[i].key]])
    IN  [i \in 1..Len(s) |-> s[i].v]

\* SortedDatasets without the sort of line 304
SortedDatasetsUnsorted(datasets) == datasets

\* sorted(results_dict[name], key=lambda x: x['socrata_id'])
SortedDatasets(datasets) ==
    LET s == SortedByKey([i \in 1..Len(datasets) |-> [k |-> datasets[i].socrata_id, v |-> datasets[i]]])
    IN  [i \in 1..Len(s) |-> s[i].v]

\* the list handed to csv_writer.writerow for one dataset
Row(name, ds) ==
    <<name, ds.socrata_id, ds.dataset_snapshot_filename, ds.dataset_snapshot_dl_ts,
      ds.homepage, ds.soc_description, ds.internet_archive_snapshots, ds.socrata_meta>>

\* the rows of the datasets of one name
GroupRows(name, results) ==
    LET sorted_datasets == SortedDatasets(DictGet(results, name))
    IN  [i \in 1..Len(sorted_datasets) |-> Row(name, sorted_datasets[i])]

\* the data rows of the names in order
RECURSIVE RowsOf(_, _)
RowsOf(names, results) ==
    IF names = <<>> THEN <<>>
    ELSE GroupRows(Head(names), results) \o RowsOf(Tail(names), results)

\* all data rows of dataset_documentation.csv
ReportRows(results) == RowsOf(SortedNames(results), results)

-----------------------------------------------------------------------------------------------------------------------------------------------------
(* The input files *)

\* lines of the download list
DlFirstB == <<"b","b","b","b","-","a","a","a","a","_","1",".","5","_","x">>
DlSecondB == <<"b","b","b","b","-","a","a","a","a","_","2",".","5","_","y">>
DlA == <<"a","a","a","a","-","b","b","b","b","_","3",".","5","_","z">>
DlBlank == <<" ">>
DlNoPrefix == <<"r","e","a","d","m","e">>
DlShortId == <<"a","b","-","a","_","4",".","5","_","w">>
DlYear10000 == <<"a","a","a","a","-","b","b","b","b","_","2","5","3","4","0","2","3","0","0","8","0","0",".","5","_","z">>

\* lines of the homepage list
HpB == <<"s",",","/","/","d","/","b","b","b","b","-","a","a","a","a">>
HpA == <<"s",",","h","/","a","a","a","a","-","b","b","b","b">>
HpAbout == <<"s",",","h","/","a","b","o","u","t">>
HpNoComma == <<"s">>
HpTwoCommas == <<"s",",","h","/","b","b","b","b","-","a","a","a","a",",","x">>
HpBlank == <<>>

\* the lines the download list of a whole run is made of
DownloadLineChoices == {DlFirstB, DlSecondB, DlA, DlBlank}

\* the lines the download list is made of in a run over catalog results of every kind
FewDownloadLineChoices == {DlFirstB, DlA}

\* the lines the download list is made of when the index builder runs alone
BuilderLineChoices ==
    {DlFirstB, DlSecondB, DlA, DlBlank, DlNoPrefix, DlShortId, DlYear10000}

\* the lines the homepage list of a whole run is made of
HomepageLineChoices == {HpB, HpAbout, HpTwoCommas, HpBlank}

\* the lines the homepage list is made of in a run over catalog results of every kind
FewHomepageLineChoices == {HpA, HpAbout, HpNoComma}

\* the files of at most n lines
Files(choices, n) == UNION {[1..k -> choices] : k \in 0..n}

-----------------------------------------------------------------------------
(* The script *)

\* readline() then rstrip(): "" at end of file
ReadLine(file, pos) == IF pos < Len(file) THEN rstrip(file[pos + 1]) ELSE <<>>

\* the file position after readline()
Advance(file, pos) == IF pos < Len(file) THEN pos + 1 ELSE pos

\* results_dict of build_download_file_dict after a matching line was added
IndexWith(index, line) ==
    LET m == MatchDownload(line)
    IN  DictAppend(index, m.socrata_id,
                   [download_filename |-> line, download_ts |-> DownloadTs(m.whole, m.fraction)])

\* what the loop of build_download_file_dict does with one line that is not empty
BuildLine(file, pos, index) ==
    LET line == ReadLine(file, pos)
        m == MatchDownload(line)
    IN  IF ~m.matched THEN [raised |-> FALSE, results_dict |-> index]
        ELSE IF TimestampRaises(m.whole, m.fraction) THEN [raised |-> TRUE, results_dict |-> index]
        ELSE [raised |-> FALSE, results_dict |-> IndexWith(index, line)]

\* the while loop of build_download_file_dict from file position pos: it breaks on a
\* line that is empty after rstrip(), and ends in the exception utcfromtimestamp raises
RECURSIVE BuildFrom(_, _, _)
BuildFrom(file, pos, index) ==
    IF ReadLine(file, pos) = <<>> THEN [raised |-> FALSE, results_dict |-> index]
    ELSE LET step == BuildLine(file, pos, index)
         IN  IF step.raised THEN step ELSE BuildFrom(file, pos + 1, step.results_dict)

build_download_file_dict(file) == BuildFrom(file, 0, <<>>)

Start ==
    /\ pc = "build"
    /\ hpos = 0
    /\ parsed_download_file_dict = <<>>
    /\ download_files_processed = {}
    /\ results_dict = <<>>
    /\ lpos = 0
    /\ leftover_downloads_list = <<>>
    /\ rows = <<>>
    /\ ia_requests = {}

Init ==
    /\ download_lines \in Files(DownloadLineChoices, MaxDl)
    /\ homepage_lines \in Files(HomepageLineChoices, MaxHp)
    /\ Start

\* parsed_download_file_dict = build_download_file_dict(); an exception ends the script
Build ==
    /\ pc = "build"
    /\ LET built == build_download_file_dict(download_lines)
       IN  /\ parsed_download_file_dict' = built.results_dict
           /\ pc' = IF built.raised THEN "crashed" ELSE "main"
    /\ UNCHANGED <<download_lines, homepage_lines, hpos,
                   download_files_processed, results_dict, lpos, leftover_downloads_list,
                   rows, ia_requests>>

\* main pass: get_next_homepage_url_line returns None and the loop breaks
MainEnd ==
    /\ pc = "main"
    /\ ReadLine(homepage_lines, hpos) = <<>>
    /\ hpos' = Advance(homepage_lines, hpos)
    /\ pc' = "leftover"
    /\ UNCHANGED <<download_lines, homepage_lines, parsed_download_file_dict,
                   download_files_processed, results_dict, lpos, leftover_downloads_list,
                   rows, ia_requests>>

\* main pass: the tuple assignment of line.split(',') raises ValueError, nothing catches it
MainRaise ==
    /\ pc = "main"
    /\ ReadLine(homepage_lines, hpos) # <<>>
    /\ SplitRaises(ReadLine(homepage_lines, hpos))
    /\ hpos' = hpos + 1
    /\ pc' = "crashed"
    /\ UNCHANGED <<download_lines, homepage_lines, parsed_download_file_dict,
                   download_files_processed, results_dict, lpos, leftover_downloads_list,
                   rows, ia_requests>>

\* main pass: no socrata id in the homepage url, continue
MainSkip ==
    /\ pc = "main"
    /\ ReadLine(homepage_lines, hpos) # <<>>
    /\ ~SplitRaises(ReadLine(homepage_lines, hpos))
    /\ ~ParseHomepageLine(ReadLine(homepage_lines, hpos)).has_id
    /\ hpos' = hpos + 1
    /\ UNCHANGED <<download_lines, homepage_lines, pc, parsed_download_file_dict,
                   download_files_processed, results_dict, lpos, leftover_downloads_list,
                   rows, ia_requests>>

\* main pass: one homepage with a socrata id is looked up and appended to results_dict
MainProcess(outcomes) ==
    /\ pc = "main"
    /\ ReadLine(homepage_lines, hpos) # <<>>
    /\ ~SplitRaises(ReadLine(homepage_lines, hpos))
    /\ ParseHomepageLine(ReadLine(homepage_lines, hpos)).has_id
    /\ \E o \in outcomes :
         LET parsed == ParseHomepageLine(ReadLine(homepage_lines, hpos))
             values == MainValues(parsed, parsed_download_file_dict, o.response, o.catalog)
         IN  /\ results_dict' = DictAppend(results_dict, values.soc_name, values)
             /\ download_files_processed' =
                    MarkProcessed(download_files_processed, parsed.socrata_id,
                                  parsed_download_file_dict)
             /\ ia_requests' = ia_requests \cup {[via |-> "main", url |-> parsed.homepage_url]}
    /\ hpos' = hpos + 1
    /\ UNCHANGED <<download_lines, homepage_lines, pc, parsed_download_file_dict,
                   lpos, leftover_downloads_list, rows>>

\* process_leftover_download_files: the key was matched by the main pass
LeftoverSkip ==
    /\ pc = "leftover"
    /\ lpos < Len(parsed_download_file_dict)
    /\ parsed_download_file_dict[lpos + 1].key \in download_files_processed
    /\ lpos' = lpos + 1
    /\ UNCHANGED <<download_lines, homepage_lines, pc, hpos, parsed_download_file_dict,
                   download_files_processed, results_dict, leftover_downloads_list,
                   rows, ia_requests>>

\* process_leftover_download_files: the key was not matched, a values dict is built for it
LeftoverProcess(outcomes) ==
    /\ pc = "leftover"
    /\ lpos < Len(parsed_download_file_dict)
    /\ parsed_download_file_dict[lpos + 1].key \notin download_files_processed
    /\ \E o \in outcomes :
         LET socrata_id == parsed_download_file_dict[lpos + 1].key
             ret == get_socrata_data(o.catalog.meta, o.catalog.stdout)
         IN  /\ leftover_downloads_list' =
                    Append(leftover_downloads_list,
                           LeftoverValues(socrata_id, parsed_download_file_dict,
                                          o.response, o.catalog))
             /\ ia_requests' =
                    IF LeftoverLooksUpArchive(ret)
                    THEN ia_requests \cup {[via |-> "leftover", url |-> ret.soc_homepage]}
                    ELSE ia_requests
    /\ lpos' = lpos + 1
    /\ UNCHANGED <<download_lines, homepage_lines, pc, hpos, parsed_download_file_dict,
                   download_files_processed, results_dict, rows>>

\* process_leftover_download_files returns and its list is merged into results_dict
MergeLeftovers ==
    /\ pc = "leftover"
    /\ lpos = Len(parsed_download_file_dict)
    /\ results_dict' = MergeInto(results_dict, leftover_downloads_list)
    /\ pc' = "report"
    /\ UNCHANGED <<download_lines, homepage_lines, hpos, parsed_download_file_dict,
                   download_files_processed, lpos, leftover_downloads_list,
                   rows, ia_requests>>

\* the report loop writes the data rows
Report ==
    /\ pc = "report"
    /\ rows' = ReportRows(results_dict)
    /\ pc' = "done"
    /\ UNCHANGED <<download_lines, homepage_lines, hpos, parsed_download_file_dict,
                   download_files_processed, results_dict, lpos, leftover_downloads_list,
                   ia_requests>>

\* one step of the script, the collaborators answering with one of outcomes
Step(outcomes) ==
    \/ Build
    \/ MainEnd
    \/ MainRaise
    \/ MainSkip
    \/ MainProcess(outcomes)
    \/ LeftoverSkip
    \/ LeftoverProcess(outcomes)
    \/ MergeLeftovers
    \/ Report

Next == Step(RunOutcomes)

\* a whole run of the script
Spec == Init /\ [][Next]_vars

\* a whole run of the script over catalog results of every kind
InitCatalog ==
    /\ download_lines \in Files(FewDownloadLineChoices, MaxDl)
    /\ homepage_lines \in Files(FewHomepageLineChoices, MaxHp)
    /\ Start

NextCatalog == Step(CatalogOutcomes)

SpecCatalog == InitCatalog /\ [][NextCatalog]_vars

\* the index builder alone, over download lists of every kind of line
InitBuilder ==
    /\ download_lines \in Files(BuilderLineChoices, MaxDl)
    /\ homepage_lines = <<>>
    /\ Start

SpecBuilder == InitBuilder /\ [][Build]_vars

-----------------------------------------------------------------------------
(* Properties *)

\* the main pass and the leftover pass have both finished
BothPassesFinished == pc \in {"report", "done"}

\* the values dicts of results_dict, list after list in dict order
RECURSIVE ValuesInDictOrder(_)
ValuesInDictOrder(results) ==
    IF results = <<>> THEN <<>>
    ELSE Head(results).value \o ValuesInDictOrder(Tail(results))

\* the elements of seq
Elements(seq) == {seq[i] : i \in 1..Len(seq)}

\* every values dict built so far, merged into results_dict or not yet
Built == Elements(ValuesInDictOrder(results_dict)) \cup Elements(leftover_downloads_list)

\* how many values dicts of the sequence all the pass via built for socrata_id
CountOf(all, socrata_id, via) ==
    Cardinality({i \in 1..Len(all) : all[i].socrata_id = socrata_id /\ all[i].via = via})

\* what the main pass found in the homepage lines it read: the socrata id of the
\* line, <<>> for a line without one
IdsRead ==
    [i \in 1..hpos |->
        LET line == rstrip(homepage_lines[i])
        IN  IF line = <<>> \/ SplitRaises(line) THEN <<>>
            ELSE ParseHomepageLine(line).socrata_id]

\* C1 as stated: after both passes, every identifier that is a key of the Download
\* Index appears in exactly one DatasetRecord of the results.
C1_ExactlyOneRecord ==
    BothPassesFinished =>
        LET all == ValuesInDictOrder(results_dict)
        IN  \A k \in DictKeys(parsed_download_file_dict) :
                CountOf(all, k, "main") + CountOf(all, k, "leftover") = 1

\* C1 amended: after both passes, every identifier that is a key of the Download Index
\* appears in at least one DatasetRecord and never in both a main-pass and a
\* leftover-pass record: in one main-pass record per homepage line the main pass read
\* that carries it, and in one leftover-pass record exactly when there is no such line.
C1_OneRecordPerHomepageLine ==
    BothPassesFinished =>
        LET all == ValuesInDictOrder(results_dict)
            ids == IdsRead
        IN  \A k \in DictKeys(parsed_download_file_dict) :
                LET main == CountOf(all, k, "main")
                    leftover == CountOf(all, k, "leftover")
                    lines == {i \in 1..hpos : ids[i] = k}
                IN  /\ main + leftover >= 1
                    /\ ~(main >= 1 /\ leftover >= 1)
                    /\ main = Cardinality(lines)
                    /\ leftover = IF lines = {} THEN 1 ELSE 0

\* C1 witness: both passes finished with one key in two main-pass records and another
\* key in one leftover-pass record.
C1_Witness ==
    /\ BothPassesFinished
    /\ LET all == ValuesInDictOrder(results_dict)
       IN  \E k, l \in DictKeys(parsed_download_file_dict) :
             /\ CountOf(all, k, "main") = 2
             /\ CountOf(all, k, "leftover") = 0
             /\ CountOf(all, l, "leftover") = 1

\* the rows of the values dicts of results_dict, in dict order
RECURSIVE RowsInDictOrder(_)
RowsInDictOrder(results) ==
    IF results = <<>> THEN <<>>
    ELSE [i \in 1..Len(Head(results).value) |-> Row(Head(results).key, Head(results).value[i])]
         \o RowsInDictOrder(Tail(results))

\* how often x occurs in seq
Occurrences(seq, x) == Cardinality({i \in 1..Len(seq) : seq[i] = x})

\* C5: the data rows written hold every DatasetRecord of results exactly once, names
\* ascending, and identifiers ascending within one name.
C5_RowsCompleteAndOrdered ==
    pc = "done" =>
        LET unordered == RowsInDictOrder(results_dict)
        IN  /\ Len(rows) = Len(unordered)
            /\ \A i \in 1..Len(rows) :
                  Occurrences(rows, rows[i]) = Occurrences(unordered, rows[i])
            /\ \A i, j \in 1..Len(rows) :
                  i < j => \/ StrLess(rows[i][1], rows[j][1])
                           \/ rows[i][1] = rows[j][1] /\ StrLeq(rows[i][2], rows[j][2])

\* C5 witness: the report is written from a results_dict whose names are out of order
\* and where a main-pass record precedes a leftover-pass record of the same name with
\* a smaller identifier.
C5_Witness ==
    /\ pc = "done"
    /\ \E i, j \in 1..Len(results_dict) : i < j /\ StrLess(results_dict[j].key, results_dict[i].key)
    /\ \E n \in 1..Len(results_dict) :
         LET list == results_dict[n].value
         IN  \E i, j \in 1..Len(list) :
               /\ i < j
               /\ list[i].via = "main"
               /\ list[j].via = "leftover"
               /\ StrLess(list[j].socrata_id, list[i].socrata_id)

\* C2 as stated: in the leftover pass the archive is looked up only with a non-empty
\* catalog homepage; with an empty one no lookup is made and the record has
\* homepage = "" and archiveSnapshots = "".
C2_NoArchiveLookupWithoutHomepage ==
    /\ \A request \in ia_requests : request.via = "leftover" => request.url # <<>>
    /\ \A values \in Built :
          values.via = "leftover" /\ values.soc_homepage = <<>> =>
              values.homepage = <<>> /\ values.internet_archive_snapshots = <<>>

\* the name get_socrata_data is to give for a catalog outcome: the value of the name
\* key when the payload has one, the sentinel otherwise
NameOf(catalog) ==
    IF "name" \in catalog.meta.keys THEN catalog.meta.name ELSE UNKN_SOC_NAME

\* C3 as stated: every DatasetRecord built, in either pass, has a non-empty name.
C3_NameNeverEmpty == \A values \in Built : values.soc_name # <<>>

\* C3 amended: every DatasetRecord built, in either pass, has the sentinel as name when
\* the catalog gave no result or a payload without name key, and the value of the name
\* key otherwise; so its name is non-empty unless the payload's name is the empty string.
C3_NameIsPayloadNameOrSentinel ==
    \A values \in Built :
        /\ values.soc_name = NameOf(values.lookup)
        /\ values.soc_name = <<>> =>
              "name" \in values.lookup.meta.keys /\ values.lookup.meta.name = <<>>

\* C3 witness: both passes have built records, from no result, from an error payload
\* with and without a name, from a normal payload with and without a name key, and from
\* a payload with an empty name.
C3_Witness ==
    /\ \E values \in Built : values.via = "main" /\ values.lookup = CatNoName
                             /\ values.soc_name = UNKN_SOC_NAME
    /\ \E values \in Built : values.via = "leftover" /\ values.lookup = CatEmptyName
                             /\ values.soc_name = <<>>

\* the lines of the download list whose prefix gives socrata_id
LinesOf(socrata_id) ==
    {i \in 1..Len(download_lines) :
        LET m == MatchDownload(rstrip(download_lines[i]))
        IN  m.matched /\ m.socrata_id = socrata_id}

\* the DownloadRecord of line i of the download list
RecordOfLine(i) ==
    LET line == rstrip(download_lines[i])
        m == MatchDownload(line)
    IN  [download_filename |-> line, download_ts |-> DownloadTs(m.whole, m.fraction)]

\* the DownloadRecords of the lines in lineset, in file order
RECURSIVE RecordsOfLines(_)
RecordsOfLines(lineset) ==
    IF lineset = {} THEN <<>>
    ELSE LET last == CHOOSE i \in lineset : \A j \in lineset : j <= i
         IN  Append(RecordsOfLines(lineset \ {last}), RecordOfLine(last))

\* the identifiers several lines of the download list have
RepeatedIds ==
    {MatchDownload(rstrip(download_lines[i])).socrata_id :
        i \in {j \in 1..Len(download_lines) :
                  Cardinality(LinesOf(MatchDownload(rstrip(download_lines[j])).socrata_id)) >= 2}}

\* C4 as stated: for an identifier several lines of the download list have, the index
\* holds the records of those lines in file order, and the DatasetRecord built for it
\* has the filename and timestamp of the last of those lines.
C4_LastLineOfDownloadListWins ==
    pc \in {"main", "leftover", "report", "done"} =>
        \A k \in RepeatedIds :
            LET records == RecordsOfLines(LinesOf(k))
            IN  /\ k \in DictKeys(parsed_download_file_dict)
                /\ DictGet(parsed_download_file_dict, k) = records
                /\ \A values \in Built :
                      values.socrata_id = k =>
                          /\ values.dataset_snapshot_filename = records[Len(records)].download_filename
                          /\ values.dataset_snapshot_dl_ts = records[Len(records)].download_ts

\* the homepage lines that do not split into exactly two pieces
Malformed(line) == line # <<>> /\ SplitRaises(line)

\* C6 as stated: a malformed line of the homepage list never halts the run.
C6_MalformedLineNeverHalts ==
    \A i \in 1..hpos : Malformed(rstrip(homepage_lines[i])) => pc # "crashed"

\* C7: with no result from the catalog the record is fully populated, with the
\* sentinel as name, empty homepage and description, and the text the lookup printed
\* as raw metadata, non-empty exactly when text was printed.
C7_NoResultGivesDefaults ==
    \A values \in Built :
        values.lookup.meta.keys = {} =>
            /\ values.soc_name = UNKN_SOC_NAME
            /\ values.soc_homepage = <<>>
            /\ values.soc_description = <<>>
            /\ values.socrata_meta = values.lookup.stdout
            /\ (values.socrata_meta # <<>>) <=> (values.lookup.stdout # <<>>)

\* C7 witness: records were built from a lookup without result that printed text and
\* from one that printed nothing.
C7_Witness ==
    \E v1, v2 \in Built :
        /\ v1.lookup = CatNone /\ v1.socrata_meta = <<>>
        /\ v2.lookup = CatNoneDiag /\ v2.socrata_meta # <<>>

\* C8 as stated: the index builder never aborts, and every line that matches the
\* prefix pattern contributes one DownloadRecord, whatever lines precede it.
C8_EveryMatchingLineIndexed ==
    pc # "build" =>
        /\ pc # "crashed"
        /\ \A i \in 1..Len(download_lines) :
              LET m == MatchDownload(rstrip(download_lines[i]))
              IN  m.matched =>
                    /\ m.socrata_id \in DictKeys(parsed_download_file_dict)
                    /\ DictGet(parsed_download_file_dict, m.socrata_id)
                           = RecordsOfLines(LinesOf(m.socrata_id))

\* the homepage lines that split in two and carry a socrata id
ValidHomepageLines ==
    {i \in 1..Len(homepage_lines) :
        LET line == rstrip(homepage_lines[i])
        IN  line # <<>> /\ ~SplitRaises(line) /\ ParseHomepageLine(line).has_id}

\* C9 as stated: the main pass examines every line of the homepage list before the
\* leftover pass begins, so an identifier with a valid homepage line anywhere in the
\* list that is in the Download Index is consumed and never processed by the leftover pass.
C9_MainPassExaminesEveryLine ==
    pc \in {"leftover", "report", "done"} =>
        \A i \in ValidHomepageLines :
            LET k == ParseHomepageLine(rstrip(homepage_lines[i])).socrata_id
            IN  k \in DictKeys(parsed_download_file_dict) =>
                  /\ k \in download_files_processed
                  /\ \A values \in Built : values.socrata_id = k => values.via = "main"

\* C10 as stated: every key of the Download Index is a valid Identifier.
C10_KeysAreValidIdentifiers ==
    \A k \in DictKeys(parsed_download_file_dict) : is_socrata_id(k)

====
